---- MODULE Spec2Model ----
(***************************************************************************)
(* A model of mypy/fastparse.py: the conversion of a typed_ast parse tree  *)
(* into mypy's own tree (ASTConverter), the conversion of type expressions *)
(* (TypeConverter) and the entry point parse().                            *)
(*                                                                         *)
(* Each group of variables holds the input and the result of one           *)
(* operation of the converter; each operation has its own specification,   *)
(* in which the other groups stay idle.                                    *)
(***************************************************************************)
EXTENDS Integers, Sequences, FiniteSets, TLC

VARIABLES
    tc_line, tc_expr, tc_result, tc_pc, \* TypeConverter(line).visit(expr)
    cv_ast, cv_self, cv_tree, cv_pc, \* an ASTConverter: source tree, its fields, result
    p_parsed, p_fnam, p_errors,     \* parse(): what typed_ast makes of the source, arguments
    p_result, p_calls, p_pc         \* its return value or exception, calls on errors

typeVars == <<tc_line, tc_expr, tc_result, tc_pc>>
convVars == <<cv_ast, cv_self, cv_tree, cv_pc>>
parseVars == <<p_parsed, p_fnam, p_errors, p_result, p_calls, p_pc>>
vars == <<typeVars, convVars, parseVars>>

\* Python's None where a name (a string) is expected.
NoneName == "<None>"

\* All sequences over S of length 0..n.
SeqUpTo(S, n) == UNION {[1..k -> S] : k \in 0..n}

(***************************************************************************)
(* Values shared by the converters                                         *)
(***************************************************************************)
\* Python's None where a node or a type is expected; visit(None) is
\* visit_NoneType, which returns None.
None == [kind |-> "NoneType"]

IsNone(x) == x.kind = "NoneType"

\* An exception that leaves the visit in progress.
Raise(exc) == [kind |-> "raise", exc |-> exc]

Raised(x) == x.kind = "raise"

\* The first element of a list of results that is a raised exception, or None.
RECURSIVE FirstRaise(_)
FirstRaise(rs) ==
    IF rs = <<>> THEN None
    ELSE IF Raised(Head(rs)) THEN Head(rs) ELSE FirstRaise(Tail(rs))

\* The rest of a method after the call that gave r: an exception r passes
\* through, a value r is handed to the rest K.
Then(r, K(_)) == IF Raised(r) THEN r ELSE K(r)

\* A list comprehension [visit(e) for e in l]: the list of results, or the
\* first exception raised.
ListResult(rs) == IF IsNone(FirstRaise(rs)) THEN [kind |-> "list", elts |-> rs]
                  ELSE FirstRaise(rs)

\* The groups of variables of the operations a specification leaves alone.
TypeIdle == tc_line = 0 /\ tc_expr = None /\ tc_result = None /\ tc_pc = "idle"
ConvIdle == cv_ast = None /\ cv_self = None /\ cv_tree = None /\ cv_pc = "idle"
ParseIdle ==
    /\ p_parsed = None /\ p_fnam = NoneName /\ p_errors = None
    /\ p_result = None /\ p_calls = <<>> /\ p_pc = "idle"

(***************************************************************************)
(* The source tree of a type expression (typed_ast nodes)                  *)
(***************************************************************************)
Name(id) == [kind |-> "Name", id |-> id]
NameConstant(v) == [kind |-> "NameConstant", const |-> v]
Str(s) == [kind |-> "Str", s |-> s]
Index(value) == [kind |-> "Index", value |-> value]
Slice == [kind |-> "Slice"]
Subscript(value, slice) == [kind |-> "Subscript", value |-> value, slice |-> slice]
Tuple(elts) == [kind |-> "Tuple", elts |-> elts]
List(elts) == [kind |-> "List", elts |-> elts]
Attribute(value, attr) == [kind |-> "Attribute", value |-> value, attr |-> attr]
Ellipsis == [kind |-> "Ellipsis"]
\* A number: an expression the TypeConverter has no visit method for.
Num == [kind |-> "Num"]

(***************************************************************************)
(* mypy.types                                                              *)
(***************************************************************************)
UnboundType(name, args, line) ==
    [kind |-> "UnboundType", name |-> name, args |-> args, line |-> line]
\* UnboundType(name): no args and no line given, the line stays the
\* constructors' default (line=-1).
UnboundTypeNoLine(name) ==
    [kind |-> "UnboundType", name |-> name, args |-> <<>>, line |-> -1]
TupleType(items, line) ==
    [kind |-> "TupleType", items |-> items, implicit |-> TRUE, line |-> line]
TypeList(items, line) == [kind |-> "TypeList", items |-> items, line |-> line]
EllipsisType(line) == [kind |-> "EllipsisType", line |-> line]
AnyType == [kind |-> "AnyType", line |-> -1]

(***************************************************************************)
(* TypeConverter                                                           *)
(***************************************************************************)
\* str.strip() on the strings of the model.
Strip(s) == CASE s = " int " -> "int"
              [] s = " None" -> "None"
              [] OTHER -> s

\* typed_ast.parse(s, '<type_comment>', 'eval').body on the strings of the
\* model; a string that is no expression raises SyntaxError.
typed_ast_parse_eval(s) ==
    CASE s = "int" -> Name("int")
      [] s = "None" -> NameConstant("None")
      [] s = "List[int]" -> Subscript(Name("List"), Index(Name("int")))
      [] s = "a.B" -> Attribute(Name("a"), "B")
      [] s = "'int'" -> Str("int")
      [] s = "' None'" -> Str(" None")
      [] OTHER -> Raise("SyntaxError")

TypeConverter_visit_Name(n, line) == UnboundType(n.id, <<>>, line)

\* str(n.value); no line is passed on.
TypeConverter_visit_NameConstant(n, line) == UnboundTypeNoLine(n.const)

TypeConverter_visit_Ellipsis(n, line) == EllipsisType(line)

RECURSIVE TypeConverter_visit(_, _)
RECURSIVE parse_type_comment(_, _)

TypeConverter_visit_list(l, line) ==
    ListResult([i \in 1..Len(l) |-> TypeConverter_visit(l[i], line)])

TypeConverter_visit_Str(n, line) == parse_type_comment(Strip(n.s), line)

TypeConverter_visit_Subscript(n, line) ==
    IF n.slice.kind # "Index" THEN Raise("AssertionError")
    ELSE LET value == TypeConverter_visit(n.value, line) IN
         IF Raised(value) THEN value
         ELSE IF value.kind # "UnboundType" THEN Raise("AssertionError")
         ELSE IF value.args # <<>> THEN Raise("AssertionError")
         ELSE LET params ==
                      IF n.slice.value.kind = "Tuple"
                      THEN TypeConverter_visit_list(n.slice.value.elts, line)
                      ELSE ListResult(<<TypeConverter_visit(n.slice.value, line)>>)
              IN IF Raised(params) THEN params
                 ELSE UnboundType(value.name, params.elts, line)

TypeConverter_visit_Tuple(n, line) ==
    LET elts == TypeConverter_visit_list(n.elts, line) IN
    IF Raised(elts) THEN elts ELSE TupleType(elts.elts, line)

TypeConverter_visit_Attribute(n, line) ==
    LET before_dot == TypeConverter_visit(n.value, line) IN
    IF Raised(before_dot) THEN before_dot
    ELSE IF before_dot.kind # "UnboundType" THEN Raise("AssertionError")
    ELSE IF before_dot.args # <<>> THEN Raise("AssertionError")
    ELSE UnboundType(before_dot.name \o "." \o n.attr, <<>>, line)

TypeConverter_visit_List(n, line) ==
    LET elts == TypeConverter_visit_list(n.elts, line) IN
    IF Raised(elts) THEN elts ELSE TypeList(elts.elts, line)

\* NodeTransformer.visit of a TypeConverter(line): the method named after the
\* node's class, generic_visit for a class without one.
TypeConverter_visit(n, line) ==
    CASE n.kind = "NoneType" -> None
      [] n.kind = "Name" -> TypeConverter_visit_Name(n, line)
      [] n.kind = "NameConstant" -> TypeConverter_visit_NameConstant(n, line)
      [] n.kind = "Str" -> TypeConverter_visit_Str(n, line)
      [] n.kind = "Subscript" -> TypeConverter_visit_Subscript(n, line)
      [] n.kind = "Tuple" -> TypeConverter_visit_Tuple(n, line)
      [] n.kind = "Attribute" -> TypeConverter_visit_Attribute(n, line)
      [] n.kind = "Ellipsis" -> TypeConverter_visit_Ellipsis(n, line)
      [] n.kind = "List" -> TypeConverter_visit_List(n, line)
      [] OTHER -> Raise("RuntimeError")

parse_type_comment(type_comment, line) ==
    LET typ == typed_ast_parse_eval(type_comment) IN
    IF Raised(typ) THEN typ ELSE TypeConverter_visit(typ, line)


(***************************************************************************)
(* The source tree of an expression (typed_ast nodes) and mypy.nodes       *)
(***************************************************************************)
NameAt(id, lineno) == [kind |-> "Name", id |-> id, lineno |-> lineno]
NumAt(lineno) == [kind |-> "Num", lineno |-> lineno]
BoolOp(op, values, lineno) ==
    [kind |-> "BoolOp", op |-> op, values |-> values, lineno |-> lineno]
BinOp(left, op, right, lineno) ==
    [kind |-> "BinOp", left |-> left, op |-> op, right |-> right, lineno |-> lineno]
UnaryOp(op, operand, lineno) ==
    [kind |-> "UnaryOp", op |-> op, operand |-> operand, lineno |-> lineno]
Compare(left, ops, comparators, lineno) ==
    [kind |-> "Compare", left |-> left, ops |-> ops, comparators |-> comparators,
     lineno |-> lineno]
AttributeAt(value, attr, lineno) ==
    [kind |-> "Attribute", value |-> value, attr |-> attr, lineno |-> lineno]
Starred(value, lineno) == [kind |-> "Starred", value |-> value, lineno |-> lineno]
keyword(arg, value) == [kind |-> "keyword", arg |-> arg, value |-> value]
Call(func, args, keywords, lineno) ==
    [kind |-> "Call", func |-> func, args |-> args, keywords |-> keywords,
     lineno |-> lineno]
\* An expression the ASTConverter has no visit method for (the TODO at 557).
Await(value, lineno) == [kind |-> "Await", value |-> value, lineno |-> lineno]

\* Node.set_line(line) of mypy.nodes: the node's line becomes line.
set_line(node, line) == [node EXCEPT !.line = line]

\* A node as its constructor leaves it has no line yet (-1).
NameExpr(name) == [kind |-> "NameExpr", name |-> name, line |-> -1]
IntExpr == [kind |-> "IntExpr", line |-> -1]
OpExpr(op, left, right) ==
    [kind |-> "OpExpr", op |-> op, left |-> left, right |-> right, line |-> -1]
UnaryExpr(op, expr) == [kind |-> "UnaryExpr", op |-> op, expr |-> expr, line |-> -1]
ComparisonExpr(operators, operands) ==
    [kind |-> "ComparisonExpr", operators |-> operators, operands |-> operands,
     line |-> -1]
MemberExpr(expr, name) == [kind |-> "MemberExpr", expr |-> expr, name |-> name, line |-> -1]
SuperExpr(name) == [kind |-> "SuperExpr", name |-> name, line |-> -1]
StarExpr(expr) == [kind |-> "StarExpr", expr |-> expr, line |-> -1]
CallExpr(callee, args, arg_kinds, arg_names) ==
    [kind |-> "CallExpr", callee |-> callee, args |-> args, arg_kinds |-> arg_kinds,
     arg_names |-> arg_names, line |-> -1]

(***************************************************************************)
(* ASTConverter: expressions                                               *)
(***************************************************************************)
\* The decorator with_line: the node f returned gets the line of the source
\* node; an exception raised by f passes through.
with_line(node, ast) == IF Raised(node) THEN node ELSE set_line(node, ast.lineno)

\* A string a method returns (an operator name, a dotted name).
StrResult(s) == [kind |-> "str", s |-> s]

op_map ==
    [ Add |-> "+", Sub |-> "-", Mult |-> "*", MatMult |-> "@", Div |-> "/",
      Mod |-> "%", Pow |-> "**", LShift |-> "<<", RShift |-> ">>", BitOr |-> "|",
      BitXor |-> "^", BitAnd |-> "&", FloorDiv |-> "//" ]

\* from_operator that lets the matrix-multiply operator through.
from_operator_AllowsMatMult(op) ==
    IF op \notin DOMAIN op_map THEN Raise("RuntimeError") ELSE StrResult(op_map[op])

from_operator(op) ==
    IF op \notin DOMAIN op_map THEN Raise("RuntimeError")
    ELSE IF op_map[op] = "@" THEN Raise("RuntimeError")
    ELSE StrResult(op_map[op])

comp_op_map ==
    [ Gt |-> ">", Lt |-> "<", Eq |-> "==", GtE |-> ">=", LtE |-> "<=",
      NotEq |-> "!=", Is |-> "is", IsNot |-> "is not", In |-> "in",
      NotIn |-> "not in" ]

from_comp_operator(op) ==
    IF op \notin DOMAIN comp_op_map THEN Raise("RuntimeError")
    ELSE StrResult(comp_op_map[op])

\* group() that nests to the left.
RECURSIVE group_LeftNested(_, _)
group_LeftNested(op, vals) ==
    IF Len(vals) = 2 THEN OpExpr(op, vals[1], vals[2])
    ELSE OpExpr(op, group_LeftNested(op, SubSeq(vals, 1, Len(vals) - 1)), vals[Len(vals)])

\* The local function group of visit_BoolOp; vals[0] of an empty list is an
\* IndexError.
RECURSIVE group(_, _)
group(op, vals) ==
    IF Len(vals) = 2 THEN OpExpr(op, vals[1], vals[2])
    ELSE IF Len(vals) = 0 THEN Raise("IndexError")
    ELSE LET rest == group(op, Tail(vals)) IN
         IF Raised(rest) THEN rest ELSE OpExpr(op, vals[1], rest)

RECURSIVE visit_expr(_)

\* ASTConverter.visit_list for a list of expressions.
visit_expr_list(l) == ListResult([i \in 1..Len(l) |-> visit_expr(l[i])])

visit_BoolOp(n) ==
    IF Len(n.values) < 2 THEN Raise("AssertionError")
    ELSE IF n.op \notin {"And", "Or"} THEN Raise("RuntimeError")
    ELSE LET op == IF n.op = "And" THEN "and" ELSE "or"
             vals == visit_expr_list(n.values)
         IN IF Raised(vals) THEN vals ELSE group(op, vals.elts)

visit_BinOp(n) ==
    LET op == from_operator(n.op) IN
    IF Raised(op) THEN op
    ELSE LET left == visit_expr(n.left) IN
         IF Raised(left) THEN left
         ELSE LET right == visit_expr(n.right) IN
              IF Raised(right) THEN right ELSE OpExpr(op.s, left, right)

unary_op_map == [ Invert |-> "~", Not |-> "not", UAdd |-> "+", USub |-> "-" ]

visit_UnaryOp(n) ==
    IF n.op \notin DOMAIN unary_op_map THEN Raise("RuntimeError")
    ELSE LET operand == visit_expr(n.operand) IN
         IF Raised(operand) THEN operand ELSE UnaryExpr(unary_op_map[n.op], operand)

visit_Compare(n) ==
    LET operators == ListResult([i \in 1..Len(n.ops) |-> from_comp_operator(n.ops[i])]) IN
    IF Raised(operators) THEN operators
    ELSE LET operands == visit_expr_list(<<n.left>> \o n.comparators) IN
         IF Raised(operands) THEN operands
         ELSE ComparisonExpr([i \in 1..Len(n.ops) |-> operators.elts[i].s], operands.elts)

\* super().attr gives a SuperExpr, and the call under it is not visited.
visit_Attribute(n) ==
    IF n.value.kind = "Call" /\ n.value.func.kind = "Name" /\ n.value.func.id = "super"
    THEN SuperExpr(n.attr)
    ELSE LET value == visit_expr(n.value) IN
         IF Raised(value) THEN value ELSE MemberExpr(value, n.attr)

visit_Starred(n) ==
    LET value == visit_expr(n.value) IN
    IF Raised(value) THEN value ELSE StarExpr(value)

is_stararg(a) == a.kind = "Starred"

\* The test of a keyword entry turned round: what visit_Call would emit if it
\* took the named entries for the ** entries.
is_star2arg_Inverted(k) == k.arg # NoneName
is_star2arg(k) == k.arg = NoneName

visit_Call(n) ==
    LET arg_types ==
            visit_expr_list(
                [i \in 1..Len(n.args) |->
                    IF is_stararg(n.args[i]) THEN n.args[i].value ELSE n.args[i]]
                \o [i \in 1..Len(n.keywords) |-> n.keywords[i].value])
        arg_kinds ==
            [i \in 1..Len(n.args) |->
                IF is_stararg(n.args[i]) THEN "ARG_STAR" ELSE "ARG_POS"]
            \o [i \in 1..Len(n.keywords) |->
                IF is_star2arg(n.keywords[i]) THEN "ARG_STAR2" ELSE "ARG_NAMED"]
    IN IF Raised(arg_types) THEN arg_types
       ELSE LET func == visit_expr(n.func) IN
            IF Raised(func) THEN func
            ELSE CallExpr(func, arg_types.elts, arg_kinds,
                          [i \in 1..Len(n.args) |-> NoneName]
                          \o [i \in 1..Len(n.keywords) |-> n.keywords[i].arg])

\* NodeTransformer.visit of the ASTConverter on an expression: the method
\* named after the node's class (under with_line where the method is
\* decorated), generic_visit for a class without one.
visit_expr(n) ==
    CASE n.kind = "NoneType" -> None
      [] n.kind = "Name" -> with_line(NameExpr(n.id), n)
      [] n.kind = "NameConstant" -> NameExpr(n.const)
      [] n.kind = "Num" -> with_line(IntExpr, n)
      [] n.kind = "BoolOp" -> with_line(visit_BoolOp(n), n)
      [] n.kind = "BinOp" -> with_line(visit_BinOp(n), n)
      [] n.kind = "UnaryOp" -> with_line(visit_UnaryOp(n), n)
      [] n.kind = "Compare" -> with_line(visit_Compare(n), n)
      [] n.kind = "Attribute" -> with_line(visit_Attribute(n), n)
      [] n.kind = "Starred" -> with_line(visit_Starred(n), n)
      [] n.kind = "Call" -> with_line(visit_Call(n), n)
      [] OTHER -> Raise("RuntimeError")


\* Longest element list of a tuple or list type expression of the model.
MaxElts == 2
\* Largest line a TypeConverter is constructed with.
MaxLine == 2

TypeLeaves ==
    { Name("int"), NameConstant("None"), Ellipsis,
      Str("List[int]"), Str(" int "), Num }

TypeExprs1 ==
    TypeLeaves
    \cup { Subscript(Name("List"), Index(t)) : t \in TypeLeaves }
    \cup { Subscript(Name("Dict"), Index(Tuple(es))) : es \in SeqUpTo(TypeLeaves, MaxElts) }
    \cup { Tuple(es) : es \in SeqUpTo(TypeLeaves, MaxElts) }
    \cup { List(es) : es \in SeqUpTo(TypeLeaves, MaxElts) }
    \cup { Attribute(Name("a"), "B"), Subscript(Name("List"), Slice) }

TypeExprs2 ==
    TypeExprs1
    \cup { Subscript(Name("List"), Index(t)) : t \in TypeExprs1 }
    \cup { Subscript(t, Index(Name("int"))) : t \in TypeExprs1 }
    \cup { Attribute(t, "C") : t \in TypeExprs1 }
    \cup { List(<<t>>) : t \in TypeExprs1 }
    \cup { Tuple(<<l, t>>) : l \in TypeLeaves, t \in TypeExprs1 }

InitType ==
    /\ tc_line \in 1..MaxLine
    /\ tc_expr \in TypeExprs2
    /\ tc_result = None
    /\ tc_pc = "call"
    /\ ConvIdle /\ ParseIdle

\* TypeConverter(line=tc_line).visit(tc_expr)
TypeConverterVisit ==
    /\ tc_pc = "call"
    /\ tc_result' = TypeConverter_visit(tc_expr, tc_line)
    /\ tc_pc' = "done"
    /\ UNCHANGED <<tc_line, tc_expr, convVars, parseVars>>

NextType == TypeConverterVisit

SpecType == InitType /\ [][NextType]_vars

\* The lines of a type object and of every type object it holds.
RECURSIVE LinesOf(_)
LinesOf(t) ==
    CASE t.kind = "UnboundType" ->
             {t.line} \cup UNION { LinesOf(t.args[i]) : i \in 1..Len(t.args) }
      [] t.kind \in {"TupleType", "TypeList"} ->
             {t.line} \cup UNION { LinesOf(t.items[i]) : i \in 1..Len(t.items) }
      [] t.kind \in {"EllipsisType", "AnyType"} -> {t.line}
      [] OTHER -> {}

\* C8: every type object produced by a TypeConverter constructed with line L
\* carries line L, at every nesting depth.
C8_TypeLineInvariant ==
    (tc_pc = "done" /\ ~Raised(tc_result)) => LinesOf(tc_result) \subseteq {tc_line}


(***************************************************************************)
(* ASTConverter.transform_args                                             *)
(***************************************************************************)
\* The source nodes: arg(arg, annotation) and arguments(args, vararg,
\* kwonlyargs, kw_defaults, kwarg, defaults).
arg(name, annotation) == [kind |-> "arg", arg |-> name, annotation |-> annotation]
arguments(args, vararg, kwonlyargs, kw_defaults, kwarg, defaults) ==
    [kind |-> "arguments", args |-> args, vararg |-> vararg,
     kwonlyargs |-> kwonlyargs, kw_defaults |-> kw_defaults, kwarg |-> kwarg,
     defaults |-> defaults]

\* mypy.nodes: Var(name) is ready as constructed; Argument(variable,
\* type_annotation, initializer, kind).
Var(name) == [kind |-> "Var", name |-> name, is_ready |-> TRUE, line |-> -1]
Argument(variable, type_annotation, initializer, arg_kind) ==
    [kind |-> "Argument", variable |-> variable, type_annotation |-> type_annotation,
     initializer |-> initializer, arg_kind |-> arg_kind]

Min(a, b) == IF a < b THEN a ELSE b
Max(a, b) == IF a > b THEN a ELSE b

\* Python's s[:n] and s[n:]; a negative n counts from the end.
PySliceTo(s, n) ==
    SubSeq(s, 1, IF n < 0 THEN Max(Len(s) + n, 0) ELSE Min(n, Len(s)))
PySliceFrom(s, n) ==
    SubSeq(s, (IF n < 0 THEN Max(Len(s) + n, 0) ELSE Min(n, Len(s))) + 1, Len(s))

\* Python's zip of two lists: as long as the shorter one.
Zip(a, b) == [i \in 1..Min(Len(a), Len(b)) |-> [fst |-> a[i], snd |-> b[i]]]

\* The local function make_argument of transform_args.
make_argument(a, default, arg_kind, line) ==
    LET arg_type == TypeConverter_visit(a.annotation, line) IN
    IF Raised(arg_type) THEN arg_type
    ELSE LET initializer == visit_expr(default) IN
         IF Raised(initializer) THEN initializer
         ELSE Argument(Var(a.arg), arg_type, initializer, arg_kind)

\* The defaults paired with the first positional parameters, not the last.
PositionalWithDefaults_FromFront(args) == Zip(args.args, args.defaults)

\* zip(args.args[num_no_defaults:], args.defaults)
PositionalWithDefaults(args) ==
    Zip(PySliceFrom(args.args, Len(args.args) - Len(args.defaults)), args.defaults)

\* zip(args.kwonlyargs[num_no_kw_defaults:], args.kw_defaults)
KwonlyWithDefaults(args) ==
    Zip(PySliceFrom(args.kwonlyargs, Len(args.kwonlyargs) - Len(args.kw_defaults)),
        args.kw_defaults)

transform_args(args, line) ==
    LET num_no_defaults == Len(args.args) - Len(args.defaults)
        pos == PySliceTo(args.args, num_no_defaults)
        opt == PositionalWithDefaults(args)
        num_no_kw_defaults == Len(args.kwonlyargs) - Len(args.kw_defaults)
        kwonly == PySliceTo(args.kwonlyargs, num_no_kw_defaults)
        kwopt == KwonlyWithDefaults(args)
    IN ListResult(
           [i \in 1..Len(pos) |-> make_argument(pos[i], None, "ARG_POS", line)]
           \o [i \in 1..Len(opt) |-> make_argument(opt[i].fst, opt[i].snd, "ARG_OPT", line)]
           \o (IF ~IsNone(args.vararg)
               THEN <<make_argument(args.vararg, None, "ARG_STAR", line)>> ELSE <<>>)
           \o [i \in 1..Len(kwonly) |-> make_argument(kwonly[i], None, "ARG_NAMED", line)]
           \o [i \in 1..Len(kwopt) |->
                  make_argument(kwopt[i].fst, kwopt[i].snd, "ARG_NAMED", line)]
           \o (IF ~IsNone(args.kwarg)
               THEN <<make_argument(args.kwarg, None, "ARG_STAR2", line)>> ELSE <<>>))


(***************************************************************************)
(* The source tree of a statement (typed_ast nodes)                        *)
(***************************************************************************)
alias(name, asname) == [kind |-> "alias", name |-> name, asname |-> asname]
Import(names, lineno) == [kind |-> "Import", names |-> names, lineno |-> lineno]
ImportFrom(module, names, level, lineno) ==
    [kind |-> "ImportFrom", module |-> module, names |-> names, level |-> level,
     lineno |-> lineno]
FunctionDef(name, args, body, decorator_list, returns, type_comment, lineno) ==
    [kind |-> "FunctionDef", name |-> name, args |-> args, body |-> body,
     decorator_list |-> decorator_list, returns |-> returns,
     type_comment |-> type_comment, lineno |-> lineno]
ClassDefNode(name, bases, keywords, body, decorator_list, lineno) ==
    [kind |-> "ClassDef", name |-> name, bases |-> bases, keywords |-> keywords,
     body |-> body, decorator_list |-> decorator_list, lineno |-> lineno]
If(test, body, orelse, lineno) ==
    [kind |-> "If", test |-> test, body |-> body, orelse |-> orelse, lineno |-> lineno]
While(test, body, orelse, lineno) ==
    [kind |-> "While", test |-> test, body |-> body, orelse |-> orelse, lineno |-> lineno]
For(target, iter, body, orelse, lineno) ==
    [kind |-> "For", target |-> target, iter |-> iter, body |-> body,
     orelse |-> orelse, lineno |-> lineno]
withitem(context_expr, optional_vars) ==
    [kind |-> "withitem", context_expr |-> context_expr, optional_vars |-> optional_vars]
With(items, body, lineno) ==
    [kind |-> "With", items |-> items, body |-> body, lineno |-> lineno]
excepthandler(type, name, body, lineno) ==
    [kind |-> "excepthandler", type |-> type, name |-> name, body |-> body,
     lineno |-> lineno]
Try(body, handlers, orelse, finalbody, lineno) ==
    [kind |-> "Try", body |-> body, handlers |-> handlers, orelse |-> orelse,
     finalbody |-> finalbody, lineno |-> lineno]
Pass(lineno) == [kind |-> "Pass", lineno |-> lineno]
Expr(value, lineno) == [kind |-> "Expr", value |-> value, lineno |-> lineno]
AugAssign(target, op, value, lineno) ==
    [kind |-> "AugAssign", target |-> target, op |-> op, value |-> value,
     lineno |-> lineno]
AssertNode(test, msg, lineno) ==
    [kind |-> "Assert", test |-> test, msg |-> msg, lineno |-> lineno]
\* A statement the ASTConverter has no visit method for (the TODO at 275).
AsyncFunctionDef(lineno) == [kind |-> "AsyncFunctionDef", lineno |-> lineno]
TypeIgnore(lineno) == [kind |-> "TypeIgnore", lineno |-> lineno]
Module(body, type_ignores) ==
    [kind |-> "Module", body |-> body, type_ignores |-> type_ignores]

(***************************************************************************)
(* mypy.nodes: statements                                                  *)
(***************************************************************************)
ImportStmt(ids) == [kind |-> "Import", ids |-> ids, line |-> -1]
ImportAll(id, relative) ==
    [kind |-> "ImportAll", id |-> id, relative |-> relative, line |-> -1]
ImportFromStmt(id, relative, names) ==
    [kind |-> "ImportFrom", id |-> id, relative |-> relative, names |-> names,
     line |-> -1]
Block(body) == [kind |-> "Block", body |-> body, line |-> -1]
CallableType(arg_types, arg_kinds, arg_names, ret_type) ==
    [kind |-> "CallableType", arg_types |-> arg_types, arg_kinds |-> arg_kinds,
     arg_names |-> arg_names, ret_type |-> ret_type, line |-> -1]
FuncDef(name, arguments_, body, type) ==
    [kind |-> "FuncDef", name |-> name, arguments |-> arguments_, body |-> body,
     type |-> type, is_decorated |-> FALSE, line |-> -1]
Decorator(func, decorators, var) ==
    [kind |-> "Decorator", func |-> func, decorators |-> decorators, var |-> var,
     line |-> -1]
OverloadedFuncDef(items) == [kind |-> "OverloadedFuncDef", items |-> items, line |-> -1]
ClassDef(name, defs, base_type_exprs, metaclass) ==
    [kind |-> "ClassDef", name |-> name, defs |-> defs,
     base_type_exprs |-> base_type_exprs, metaclass |-> metaclass,
     decorators |-> <<>>, line |-> -1]
IfStmt(expr, body, else_body) ==
    [kind |-> "IfStmt", expr |-> expr, body |-> body, else_body |-> else_body,
     line |-> -1]
WhileStmt(expr, body, else_body) ==
    [kind |-> "WhileStmt", expr |-> expr, body |-> body, else_body |-> else_body,
     line |-> -1]
ForStmt(index, expr, body, else_body) ==
    [kind |-> "ForStmt", index |-> index, expr |-> expr, body |-> body,
     else_body |-> else_body, line |-> -1]
WithStmt(expr, target, body) ==
    [kind |-> "WithStmt", expr |-> expr, target |-> target, body |-> body, line |-> -1]
TryStmt(body, vars_, types, handlers, else_body, finally_body) ==
    [kind |-> "TryStmt", body |-> body, vars |-> vars_, types |-> types,
     handlers |-> handlers, else_body |-> else_body, finally_body |-> finally_body,
     line |-> -1]
PassStmt == [kind |-> "PassStmt", line |-> -1]
ExpressionStmt(expr) == [kind |-> "ExpressionStmt", expr |-> expr, line |-> -1]
OperatorAssignmentStmt(op, lvalue, rvalue) ==
    [kind |-> "OperatorAssignmentStmt", op |-> op, lvalue |-> lvalue,
     rvalue |-> rvalue, line |-> -1]
AssertStmt(expr) == [kind |-> "AssertStmt", expr |-> expr, line |-> -1]
\* MypyFile(defs, imports, is_bom, ignored_lines, weak_opts=set()); path and
\* is_stub are as the class leaves them until parse() sets them.
MypyFile(defs, imports, is_bom, ignored_lines) ==
    [kind |-> "MypyFile", defs |-> defs, imports |-> imports, is_bom |-> is_bom,
     ignored_lines |-> ignored_lines, weak_opts |-> {}, path |-> NoneName,
     is_stub |-> FALSE]


(***************************************************************************)
(* ASTConverter.fix_function_overloads                                     *)
(***************************************************************************)
\* isinstance(stmt, Decorator)
IsDecorator(stmt) == stmt.kind = "Decorator"

\* A flush that wraps a run of one as well.
FlushOverloadWrapsSingle(ret, current_overload) ==
    IF Len(current_overload) >= 1
    THEN Append(ret, OverloadedFuncDef(current_overload))
    ELSE ret

\* The flush of the pending run: lines 162-165 and again 175-178.
FlushOverload(ret, current_overload) ==
    IF Len(current_overload) = 1
    THEN Append(ret, current_overload[1])
    ELSE IF Len(current_overload) > 1
         THEN Append(ret, OverloadedFuncDef(current_overload))
         ELSE ret

\* The for loop of fix_function_overloads from statement i on, then the
\* flush after the loop.
RECURSIVE OverloadLoop(_, _, _, _, _)
OverloadLoop(stmts, i, ret, current_overload, current_overload_name) ==
    IF i > Len(stmts)
    THEN FlushOverload(ret, current_overload)
    ELSE LET stmt == stmts[i] IN
         IF IsDecorator(stmt) /\ stmt.func.name = current_overload_name
         THEN OverloadLoop(stmts, i + 1, ret,
                           Append(current_overload, stmt), current_overload_name)
         ELSE LET flushed == FlushOverload(ret, current_overload) IN
              IF IsDecorator(stmt)
              THEN OverloadLoop(stmts, i + 1, flushed, <<stmt>>, stmt.func.name)
              ELSE OverloadLoop(stmts, i + 1, Append(flushed, stmt), <<>>, NoneName)

fix_function_overloads(stmts) == OverloadLoop(stmts, 1, <<>>, <<>>, NoneName)


(***************************************************************************)
(* ASTConverter: statements                                                *)
(*                                                                         *)
(* A visit of a statement reads and writes the converter's fields, so it   *)
(* takes the converter and returns Visited(node, self), or the exception.  *)
(***************************************************************************)
\* ASTConverter.__init__. visited is a history of the visits, kept for the
\* properties: the line of each statement visited and in_class at that time.
ASTConverter == [in_class |-> FALSE, imports |-> <<>>, visited |-> <<>>]

Visited(node, self) == [kind |-> "visited", node |-> node, self |-> self]

VisitedList(elts, self) == [kind |-> "list", elts |-> elts, self |-> self]

\* Attribute chains stringified attribute first.
RECURSIVE stringify_name_Reversed(_)
stringify_name_Reversed(n) ==
    IF n.kind = "Name" THEN StrResult(n.id)
    ELSE IF n.kind = "Attribute"
         THEN LET v == stringify_name_Reversed(n.value) IN
              IF Raised(v) THEN v ELSE StrResult(n.attr \o "." \o v.s)
         ELSE Raise("AssertionError")

RECURSIVE stringify_name(_)
stringify_name(n) ==
    IF n.kind = "Name" THEN StrResult(n.id)
    ELSE IF n.kind = "Attribute"
         THEN LET v == stringify_name(n.value) IN
              IF Raised(v) THEN v ELSE StrResult(v.s \o "." \o n.attr)
         ELSE Raise("AssertionError")

\* find(lambda x: x.arg == 'metaclass', n.keywords)
RECURSIVE find_metaclass(_)
find_metaclass(keywords) ==
    IF keywords = <<>> THEN None
    ELSE IF Head(keywords).arg = "metaclass" THEN Head(keywords)
    ELSE find_metaclass(Tail(keywords))

\* typed_ast.parse(s, '<func_type>', 'func_type') on the type comments of the
\* model.
FunctionType(argtypes, returns) ==
    [kind |-> "FunctionType", argtypes |-> argtypes, returns |-> returns]

typed_ast_parse_func_type(s) ==
    CASE s = "() -> None" -> FunctionType(<<>>, NameConstant("None"))
      [] s = "(int) -> int" -> FunctionType(<<Name("int")>>, Name("int"))
      [] s = "(int, int) -> int" -> FunctionType(<<Name("int"), Name("int")>>, Name("int"))
      [] s = "(...) -> int" -> FunctionType(<<Ellipsis>>, Name("int"))
      [] OTHER -> Raise("SyntaxError")

\* [(a.name, a.asname) for a in n.names]
AliasPairs(names) ==
    [i \in 1..Len(names) |-> [name |-> names[i].name, asname |-> names[i].asname]]

\* visit_Import under with_line. The node appended to self.imports is the
\* node returned, so the line with_line sets shows in the list as well.
visit_Import(n, self) ==
    LET i == set_line(ImportStmt(AliasPairs(n.names)), n.lineno) IN
    Visited(i, [self EXCEPT !.imports = Append(@, i)])

\* visit_ImportFrom under with_line.
visit_ImportFrom(n, self) ==
    LET i == set_line(
                 IF Len(n.names) = 1 /\ n.names[1].name = "*"
                 THEN ImportAll(n.module, n.level)
                 ELSE ImportFromStmt(IF n.module # NoneName THEN n.module ELSE "",
                                     n.level, AliasPairs(n.names)),
                 n.lineno)
    IN Visited(i, [self EXCEPT !.imports = Append(@, i)])

\* Lines 207-209: add implicit self type.
ImplicitSelf(self, arg_types, args) ==
    IF self.in_class /\ Len(arg_types) < Len(args)
    THEN <<AnyType>> \o arg_types
    ELSE arg_types

\* Lines 214-220: the signature, or None for a function with no type at all.
MakeFuncType(arg_types, arg_kinds, arg_names, return_type) ==
    IF (\E i \in 1..Len(arg_types) : ~IsNone(arg_types[i])) \/ ~IsNone(return_type)
    THEN CallableType(
             [i \in 1..Len(arg_types) |->
                 IF ~IsNone(arg_types[i]) THEN arg_types[i] ELSE AnyType],
             arg_kinds, arg_names,
             IF ~IsNone(return_type) THEN return_type ELSE AnyType)
    ELSE None

\* The decorated definition without the line of the FuncDef moved.
DecorateFuncDef_LineNotMoved(n, func_def, decorators) ==
    Decorator([func_def EXCEPT !.is_decorated = TRUE],
              decorators,
              set_line([Var(func_def.name) EXCEPT !.is_ready = FALSE],
                       n.decorator_list[1].lineno))

\* Lines 230-237: the Decorator around a decorated definition.
DecorateFuncDef(n, func_def, decorators) ==
    LET line == n.lineno + Len(n.decorator_list) IN
    Decorator([func_def EXCEPT !.is_decorated = TRUE,
                               !.line = line,
                               !.body = set_line(@, line)],
              decorators,
              set_line([Var(func_def.name) EXCEPT !.is_ready = FALSE],
                       n.decorator_list[1].lineno))

RECURSIVE visit_stmt(_, _)

\* ASTConverter.visit_list for a list of statements: one after the other,
\* each with the fields the one before left.
RECURSIVE visit_stmt_list(_, _)
visit_stmt_list(l, self) ==
    IF l = <<>> THEN VisitedList(<<>>, self)
    ELSE Then(visit_stmt(Head(l), self), LAMBDA r :
         Then(visit_stmt_list(Tail(l), r.self), LAMBDA rest :
         VisitedList(<<r.node>> \o rest.elts, rest.self)))

as_block(stmts, lineno, self) ==
    IF stmts = <<>> THEN Visited(None, self)
    ELSE Then(visit_stmt_list(stmts, self), LAMBDA b :
         Visited(set_line(Block(b.elts), lineno), b.self))

\* The signature of a function with a type comment (lines 202-209), as
\* [arg_types, return_type], or the exception.
TypeCommentSignature(n, self, args) ==
    Then(typed_ast_parse_func_type(n.type_comment), LAMBDA func_type_ast :
    Then(TypeConverter_visit_list(func_type_ast.argtypes, n.lineno), LAMBDA converted :
    Then(TypeConverter_visit(func_type_ast.returns, n.lineno), LAMBDA return_type :
    [kind |-> "signature",
     arg_types |->
         ImplicitSelf(self,
             [i \in 1..Len(converted.elts) |->
                 IF ~IsNone(converted.elts[i]) THEN converted.elts[i] ELSE AnyType],
             args),
     return_type |-> return_type])))

\* The signature of a function without a type comment (lines 211-212).
AnnotationSignature(n, args) ==
    Then(TypeConverter_visit(n.returns, n.lineno), LAMBDA return_type :
    [kind |-> "signature",
     arg_types |-> [i \in 1..Len(args) |-> args[i].type_annotation],
     return_type |-> return_type])

visit_FunctionDef(n, self) ==
    Then(transform_args(n.args, n.lineno), LAMBDA args :
    Then(IF n.type_comment # NoneName
         THEN TypeCommentSignature(n, self, args.elts)
         ELSE AnnotationSignature(n, args.elts), LAMBDA sig :
    Then(as_block(n.body, n.lineno, self), LAMBDA body :
    Then(FuncDef(n.name, args.elts, body.node,
                 MakeFuncType(sig.arg_types,
                              [i \in 1..Len(args.elts) |-> args.elts[i].arg_kind],
                              [i \in 1..Len(args.elts) |-> args.elts[i].variable.name],
                              sig.return_type)), LAMBDA func_def :
    IF n.decorator_list # <<>>
    THEN IF IsNone(body.node) THEN Raise("AttributeError")
         ELSE Then(visit_expr_list(n.decorator_list), LAMBDA decorators :
              Visited(DecorateFuncDef(n, func_def, decorators.elts), body.self))
    ELSE Visited(func_def, body.self)))))

visit_ClassDef(n, self) ==
    Then(find_metaclass(n.keywords), LAMBDA metaclass_arg :
    Then(IF ~IsNone(metaclass_arg) THEN stringify_name(metaclass_arg.value)
         ELSE StrResult(NoneName), LAMBDA metaclass :
    Then(visit_stmt_list(n.body, [self EXCEPT !.in_class = TRUE]), LAMBDA body :
    Then(visit_expr_list(n.bases), LAMBDA bases :
    Then(visit_expr_list(n.decorator_list), LAMBDA decorators :
    Visited([ClassDef(n.name, Block(fix_function_overloads(body.elts)),
                      bases.elts, metaclass.s)
                EXCEPT !.decorators = decorators.elts],
            [body.self EXCEPT !.in_class = FALSE]))))))

\* The bodies of the handlers of a try statement, one after the other.
RECURSIVE HandlerBlocks(_, _)
HandlerBlocks(handlers, self) ==
    IF handlers = <<>> THEN VisitedList(<<>>, self)
    ELSE Then(as_block(Head(handlers).body, Head(handlers).lineno, self), LAMBDA b :
         Then(HandlerBlocks(Tail(handlers), b.self), LAMBDA rest :
         VisitedList(<<b.node>> \o rest.elts, rest.self)))

\* The handlers' types and bodies are converted (lines 382-383) before the
\* body, the else-block and the finally-block (lines 385-390).
visit_Try(n, self) ==
    Then(visit_expr_list([i \in 1..Len(n.handlers) |-> n.handlers[i].type]), LAMBDA types :
    Then(HandlerBlocks(n.handlers, self), LAMBDA handlers :
    Then(as_block(n.body, n.lineno, handlers.self), LAMBDA body :
    Then(as_block(n.orelse, n.lineno, body.self), LAMBDA orelse :
    Then(as_block(n.finalbody, n.lineno, orelse.self), LAMBDA finalbody :
    Visited(TryStmt(body.node,
                    [i \in 1..Len(n.handlers) |->
                        IF n.handlers[i].name # NoneName
                        THEN NameExpr(n.handlers[i].name) ELSE None],
                    types.elts, handlers.elts, orelse.node, finalbody.node),
            finalbody.self))))))

\* visit_If and visit_While: the test, the body, the else-block.
visit_If(n, self) ==
    Then(visit_expr(n.test), LAMBDA test :
    Then(as_block(n.body, n.lineno, self), LAMBDA body :
    Then(as_block(n.orelse, n.lineno, body.self), LAMBDA orelse :
    Visited(IfStmt(<<test>>, <<body.node>>, orelse.node), orelse.self))))

visit_While(n, self) ==
    Then(visit_expr(n.test), LAMBDA test :
    Then(as_block(n.body, n.lineno, self), LAMBDA body :
    Then(as_block(n.orelse, n.lineno, body.self), LAMBDA orelse :
    Visited(WhileStmt(test, body.node, orelse.node), orelse.self))))

visit_For(n, self) ==
    Then(visit_expr(n.target), LAMBDA target :
    Then(visit_expr(n.iter), LAMBDA iter :
    Then(as_block(n.body, n.lineno, self), LAMBDA body :
    Then(as_block(n.orelse, n.lineno, body.self), LAMBDA orelse :
    Visited(ForStmt(target, iter, body.node, orelse.node), orelse.self)))))

visit_With(n, self) ==
    Then(visit_expr_list([i \in 1..Len(n.items) |-> n.items[i].context_expr]),
         LAMBDA exprs :
    Then(visit_expr_list([i \in 1..Len(n.items) |-> n.items[i].optional_vars]),
         LAMBDA targets :
    Then(as_block(n.body, n.lineno, self), LAMBDA body :
    Visited(WithStmt(exprs.elts, targets.elts, body.node), body.self))))

visit_Expr(n, self) ==
    Then(visit_expr(n.value), LAMBDA value : Visited(ExpressionStmt(value), self))

visit_AugAssign(n, self) ==
    Then(from_operator(n.op), LAMBDA op :
    Then(visit_expr(n.target), LAMBDA target :
    Then(visit_expr(n.value), LAMBDA value :
    Visited(OperatorAssignmentStmt(op.s, target, value), self))))

\* The message of the assert statement is not visited.
visit_Assert(n, self) ==
    Then(visit_expr(n.test), LAMBDA test : Visited(AssertStmt(test), self))

\* with_line around a visit of a statement.
with_line_stmt(r, ast) ==
    IF Raised(r) THEN r ELSE Visited(set_line(r.node, ast.lineno), r.self)

\* NodeTransformer.visit of the ASTConverter on a statement: the method named
\* after the node's class, under with_line; generic_visit for a class without
\* one. The visit is entered in the history first.
visit_stmt(n, self) ==
    LET here == [self EXCEPT !.visited =
                     Append(@, [lineno |-> n.lineno, in_class |-> self.in_class])]
    IN CASE n.kind = "FunctionDef" -> with_line_stmt(visit_FunctionDef(n, here), n)
         [] n.kind = "ClassDef" -> with_line_stmt(visit_ClassDef(n, here), n)
         [] n.kind = "For" -> with_line_stmt(visit_For(n, here), n)
         [] n.kind = "While" -> with_line_stmt(visit_While(n, here), n)
         [] n.kind = "If" -> with_line_stmt(visit_If(n, here), n)
         [] n.kind = "With" -> with_line_stmt(visit_With(n, here), n)
         [] n.kind = "Try" -> with_line_stmt(visit_Try(n, here), n)
         [] n.kind = "Assert" -> with_line_stmt(visit_Assert(n, here), n)
         [] n.kind = "Import" -> visit_Import(n, here)
         [] n.kind = "ImportFrom" -> visit_ImportFrom(n, here)
         [] n.kind = "Expr" -> with_line_stmt(visit_Expr(n, here), n)
         [] n.kind = "AugAssign" -> with_line_stmt(visit_AugAssign(n, here), n)
         [] n.kind = "Pass" -> with_line_stmt(Visited(PassStmt, here), n)
         [] OTHER -> Raise("RuntimeError")

visit_Module(mod, self) ==
    Then(visit_stmt_list(mod.body, self), LAMBDA body :
         Visited(MypyFile(fix_function_overloads(body.elts),
                          body.self.imports,
                          FALSE,
                          {mod.type_ignores[i].lineno : i \in 1..Len(mod.type_ignores)}),
                 body.self))


(***************************************************************************)
(* parse                                                                   *)
(***************************************************************************)
\* What typed_ast.parse(source, fnam, 'exec') does with a source it rejects.
SyntaxErrorAt(lineno, msg) ==
    [kind |-> "raise", exc |-> "SyntaxError", lineno |-> lineno, msg |-> msg]

\* The characters of the file names of the model.
Chars(fnam) ==
    CASE fnam = "" -> <<>>
      [] fnam = "m.py" -> <<"m", ".", "p", "y">>
      [] fnam = "m.pyi" -> <<"m", ".", "p", "y", "i">>
      [] fnam = ".pyi" -> <<".", "p", "y", "i">>
      [] fnam = "pyi" -> <<"p", "y", "i">>
      [] fnam = "m.pyi.py" -> <<"m", ".", "p", "y", "i", ".", "p", "y">>
      [] fnam = "pkg/m.pyi" -> <<"p", "k", "g", "/", "m", ".", "p", "y", "i">>

\* str.endswith
endswith(chars, suffix) ==
    /\ Len(suffix) <= Len(chars)
    /\ SubSeq(chars, Len(chars) - Len(suffix) + 1, Len(chars)) = suffix

\* Line 43: bool(fnam) and fnam.endswith('.pyi'); None and '' are false.
is_stub_file(fnam) ==
    /\ fnam # NoneName
    /\ Chars(fnam) # <<>>
    /\ endswith(Chars(fnam), <<".", "p", "y", "i">>)

\* An Errors object, which is true in a condition.
Errors == [kind |-> "Errors"]

\* The except branch reporting the error without the file set first.
ReportSyntaxError_NoFile(fnam, e) ==
    << [kind |-> "report", line |-> e.lineno, message |-> e.msg] >>

\* Lines 48-49: the calls parse makes on the Errors object.
ReportSyntaxError(fnam, e) ==
    << [kind |-> "set_file", file |-> IF fnam = NoneName THEN "<input>" ELSE fnam],
       [kind |-> "report", line |-> e.lineno, message |-> e.msg] >>

\* parse(source, fnam, errors), given what typed_ast.parse makes of the
\* source: the value returned or the exception raised, and the calls made on
\* errors.
ParseOutcome(result, calls) == [result |-> result, calls |-> calls]

parse(parsed, fnam, errors) ==
    IF Raised(parsed)
    THEN IF ~IsNone(errors)
         THEN ParseOutcome(MypyFile(<<>>, <<>>, FALSE, {}), ReportSyntaxError(fnam, parsed))
         ELSE ParseOutcome(parsed, <<>>)
    ELSE LET tree == visit_Module(parsed, ASTConverter) IN
         IF Raised(tree) THEN ParseOutcome(tree, <<>>)
         ELSE ParseOutcome([tree.node EXCEPT !.path = fnam,
                                             !.is_stub = is_stub_file(fnam)],
                           <<>>)

(***************************************************************************)
(* Source trees of the model, by shape                                     *)
(*                                                                         *)
(* A shape is a statement without its line; Number gives every statement   *)
(* of a module the line it has when each statement, handler, else and      *)
(* finally stands on a line of its own.                                    *)
(***************************************************************************)
RECURSIVE ShapesOfSize(_, _)
RECURSIVE BodiesOfSize(_, _)
RECURSIVE HandlersOfSize(_, _)

\* The statement lists of n statements in all, nested ones counted.
BodiesOfSize(n, fam) ==
    IF n = 0 THEN {<<>>}
    ELSE UNION { { <<st>> \o b : st \in ShapesOfSize(k, fam), b \in BodiesOfSize(n - k, fam) } :
                 k \in 1..n }

\* The lists of handler bodies of n statements in all, no body empty.
HandlersOfSize(n, fam) ==
    IF n = 0 THEN {<<>>}
    ELSE UNION { { <<h>> \o hs : h \in BodiesOfSize(k, fam), hs \in HandlersOfSize(n - k, fam) } :
                 k \in 1..n }

\* The statements of n statements in all: a leaf, or a compound statement of
\* the family with its bodies. A try statement has a handler or a finally-block,
\* and an else-block only after a handler.
ShapesOfSize(n, fam) ==
    IF n = 1 THEN { [kind |-> k] : k \in fam.leaves }
    ELSE { [kind |-> k, body |-> b] : k \in fam.one, b \in BodiesOfSize(n - 1, fam) }
         \cup UNION { { [kind |-> k, body |-> b, orelse |-> e] :
                          k \in fam.two, b \in BodiesOfSize(i, fam),
                          e \in BodiesOfSize(n - 1 - i, fam) } : i \in 1..(n - 1) }
         \cup UNION { { [kind |-> k, body |-> b, handlers |-> hs, orelse |-> e,
                         finalbody |-> f] :
                          k \in fam.try, b \in BodiesOfSize(sz[1], fam),
                          hs \in HandlersOfSize(sz[2], fam),
                          e \in BodiesOfSize(sz[3], fam),
                          f \in BodiesOfSize(n - 1 - sz[1] - sz[2] - sz[3], fam) } :
                      sz \in { t \in (1..(n - 1)) \X (0..(n - 1)) \X (0..(n - 1)) :
                                 /\ t[1] + t[2] + t[3] <= n - 1
                                 /\ (t[2] > 0 \/ n - 1 - t[1] - t[2] - t[3] > 0)
                                 /\ (t[3] > 0 => t[2] > 0) } }

ModuleShapes(maxNodes, fam) == UNION { BodiesOfSize(n, fam) : n \in 1..maxNodes }

\* The expressions and parameter lists the shapes are filled in with.
NoArguments == arguments(<<>>, None, <<>>, <<>>, None, <<>>)
Cond(lineno) == NameAt("c", lineno)

\* The import statement on a line: the three forms take turns, starting with
\* the form of number rot.
ImportOn(lineno, rot) ==
    CASE (lineno + rot) % 3 = 0 ->
             Import(<<alias("m" \o ToString(lineno), NoneName)>>, lineno)
      [] (lineno + rot) % 3 = 1 ->
             ImportFrom("pkg", <<alias("x" \o ToString(lineno), NoneName)>>, 0, lineno)
      [] OTHER -> ImportFrom("pkg" \o ToString(lineno), <<alias("*", NoneName)>>, 0, lineno)

Numbered(nodes, next) == [nodes |-> nodes, next |-> next]

RECURSIVE NumberBody(_, _, _)
RECURSIVE NumberHandlers(_, _, _)

\* The block after a keyword line of its own (else, finally), if there is one.
NumberClause(body, next, rot) ==
    IF body = <<>> THEN Numbered(<<>>, next) ELSE NumberBody(body, next + 1, rot)

\* The statement of shape sh on line lineno, its bodies on the lines after.
NumberStmt(sh, lineno, rot) ==
    CASE sh.kind = "Import" -> Numbered(<<ImportOn(lineno, rot)>>, lineno + 1)
      [] sh.kind = "Pass" -> Numbered(<<Pass(lineno)>>, lineno + 1)
      [] sh.kind \in {"DecoratedF", "DecoratedG"} ->
             Numbered(<<FunctionDef(IF sh.kind = "DecoratedF" THEN "f" ELSE "g",
                                    NoArguments, <<Pass(lineno + 2)>>,
                                    <<NameAt("overload", lineno)>>, None, NoneName,
                                    lineno)>>, lineno + 3)
      [] sh.kind = "PlainF" ->
             Numbered(<<FunctionDef("f", NoArguments, <<Pass(lineno + 1)>>, <<>>, None,
                                    NoneName, lineno)>>, lineno + 2)
      [] sh.kind = "FunctionDef" ->
             LET b == NumberBody(sh.body, lineno + 1, rot) IN
             Numbered(<<FunctionDef("f" \o ToString(lineno), NoArguments, b.nodes, <<>>,
                                    None, NoneName, lineno)>>, b.next)
      [] sh.kind = "ClassDef" ->
             LET b == NumberBody(sh.body, lineno + 1, rot) IN
             Numbered(<<ClassDefNode("C" \o ToString(lineno), <<>>, <<>>, b.nodes, <<>>,
                                     lineno)>>, b.next)
      [] sh.kind = "With" ->
             LET b == NumberBody(sh.body, lineno + 1, rot) IN
             Numbered(<<With(<<withitem(Cond(lineno), None)>>, b.nodes, lineno)>>, b.next)
      [] sh.kind \in {"If", "While", "For"} ->
             LET b == NumberBody(sh.body, lineno + 1, rot)
                 e == NumberClause(sh.orelse, b.next, rot)
             IN Numbered(
                    << CASE sh.kind = "If" -> If(Cond(lineno), b.nodes, e.nodes, lineno)
                         [] sh.kind = "While" -> While(Cond(lineno), b.nodes, e.nodes, lineno)
                         [] OTHER -> For(NameAt("i", lineno), Cond(lineno), b.nodes,
                                         e.nodes, lineno) >>,
                    e.next)
      [] sh.kind = "Try" ->
             LET b == NumberBody(sh.body, lineno + 1, rot)
                 hs == NumberHandlers(sh.handlers, b.next, rot)
                 e == NumberClause(sh.orelse, hs.next, rot)
                 f == NumberClause(sh.finalbody, e.next, rot)
             IN Numbered(<<Try(b.nodes, hs.nodes, e.nodes, f.nodes, lineno)>>, f.next)

NumberBody(body, next, rot) ==
    IF body = <<>> THEN Numbered(<<>>, next)
    ELSE LET st == NumberStmt(Head(body), next, rot)
             rest == NumberBody(Tail(body), st.next, rot)
         IN Numbered(st.nodes \o rest.nodes, rest.next)

NumberHandlers(handlers, next, rot) ==
    IF handlers = <<>> THEN Numbered(<<>>, next)
    ELSE LET b == NumberBody(Head(handlers), next + 1, rot)
             rest == NumberHandlers(Tail(handlers), b.next, rot)
         IN Numbered(<<excepthandler(None, NoneName, b.nodes, next)>> \o rest.nodes,
                     rest.next)

\* The module of a list of shapes.
NumberModule(body, rot) == Module(NumberBody(body, 1, rot).nodes, <<>>)

\* Whether a module is one class and nothing else at its top.
IsClassModule(mod) == mod.body # <<>> /\ mod.body[1].kind = "ClassDef"

\* The module of one class whose body is a list of shapes.
NumberClassModule(body, rot) ==
    Module(<<ClassDefNode("C", <<>>, <<>>, NumberBody(body, 2, rot).nodes, <<>>, 1)>>,
           <<>>)


(***************************************************************************)
(* The specifications of the visits of an ASTConverter                     *)
(***************************************************************************)
\* Most operands of a boolean operation of the model.
MaxOperands == 4

\* The i-th operand of a boolean operation: a name, or a parenthesised
\* boolean operation of its own.
BoolOperand(shape, i, lineno) ==
    IF shape = "name" THEN NameAt("v" \o ToString(i), lineno)
    ELSE BoolOp(shape,
                <<NameAt("v" \o ToString(i) \o "a", lineno),
                  NameAt("v" \o ToString(i) \o "b", lineno)>>,
                lineno)

BoolOpInputs ==
    { BoolOp(op, [i \in 1..Len(shapes) |-> BoolOperand(shapes[i], i, lineno)], lineno) :
        op \in {"And", "Or", "Xor"},
        shapes \in UNION { [1..n -> {"name", "And", "Or"}] : n \in 2..MaxOperands },
        lineno \in 1..MaxLine }

InitBoolOp ==
    /\ cv_ast \in BoolOpInputs
    /\ cv_self = ASTConverter
    /\ cv_tree = None
    /\ cv_pc = "call"
    /\ TypeIdle /\ ParseIdle

\* ASTConverter().visit(expression)
VisitExpr ==
    /\ cv_pc = "call"
    /\ cv_tree' = visit_expr(cv_ast)
    /\ cv_pc' = "done"
    /\ UNCHANGED <<cv_ast, cv_self, typeVars, parseVars>>

NextBoolOp == VisitExpr

SpecBoolOp == InitBoolOp /\ [][NextBoolOp]_vars

\* node is the right-nested fold of vs[i..]: an OpExpr of op whose left child
\* is vs[i] and whose right child is the fold of the rest; the last operand
\* itself at the end.
RECURSIVE RightNested(_, _, _, _)
RightNested(node, op, vs, i) ==
    IF i = Len(vs) THEN node = vs[i]
    ELSE /\ node.kind = "OpExpr"
         /\ node.op = op
         /\ node.left = vs[i]
         /\ RightNested(node.right, op, vs, i + 1)

\* C7: a chain v1 op ... op vn of n >= 2 operands converts to
\* Op(v1, Op(v2, ... Op(v(n-1), vn))): n-1 nodes of the one operator down the
\* right spine, each left child the converted operand of its position.
C7_BoolOpRightNested ==
    (cv_pc = "done" /\ cv_ast.kind = "BoolOp" /\ cv_ast.op \in {"And", "Or"}) =>
        /\ ~Raised(cv_tree)
        /\ RightNested(cv_tree,
                       IF cv_ast.op = "And" THEN "and" ELSE "or",
                       [i \in 1..Len(cv_ast.values) |-> visit_expr(cv_ast.values[i])],
                       1)

\* A chain of three or more operands whose first and last operands are
\* boolean operations themselves.
C7_Witness ==
    /\ cv_pc = "done"
    /\ cv_ast.kind = "BoolOp"
    /\ cv_ast.op = "And"
    /\ Len(cv_ast.values) >= 3
    /\ cv_ast.values[1].kind = "BoolOp"
    /\ cv_ast.values[Len(cv_ast.values)].kind = "BoolOp"
    /\ cv_tree.kind = "OpExpr"
    /\ cv_tree.right.kind = "OpExpr"


\* Most positional and most keyword-only parameters of a parameter list of
\* the model.
MaxPositional == 3
MaxKwonly == 2

\* The annotation of every parameter of a list: none, or int.
ArgAnnotations == {None, Name("int")}

\* Parameter lists by their counts: the positional parameters p1.., their
\* defaults d1.., the keyword-only parameters k1.. and their defaults, each a
\* name or None (the parser's entry for a keyword-only parameter without one).
ArgumentsInputs ==
    { arguments([i \in 1..np |-> arg("p" \o ToString(i), ann)],
                IF va THEN arg("va", ann) ELSE None,
                [i \in 1..nk |-> arg("k" \o ToString(i), ann)],
                [i \in 1..Len(kd) |->
                    IF kd[i] THEN NameAt("kd" \o ToString(i), 1) ELSE None],
                IF kw THEN arg("kw", ann) ELSE None,
                [i \in 1..nd |-> NameAt("d" \o ToString(i), 1)]) :
        np \in 0..MaxPositional, nd \in 0..MaxPositional, va \in BOOLEAN,
        nk \in 0..MaxKwonly, kd \in SeqUpTo(BOOLEAN, MaxKwonly), kw \in BOOLEAN,
        ann \in ArgAnnotations }

InitArgs ==
    /\ cv_ast \in { [kind |-> "FunctionDef", args |-> a, lineno |-> l] :
                      a \in ArgumentsInputs, l \in 1..MaxLine }
    /\ cv_self = ASTConverter
    /\ cv_tree = None
    /\ cv_pc = "call"
    /\ TypeIdle /\ ParseIdle

\* self.transform_args(n.args, n.lineno)
TransformArgs ==
    /\ cv_pc = "call"
    /\ cv_tree' = transform_args(cv_ast.args, cv_ast.lineno)
    /\ cv_pc' = "done"
    /\ UNCHANGED <<cv_ast, cv_self, typeVars, parseVars>>

NextArgs == TransformArgs

SpecArgs == InitArgs /\ [][NextArgs]_vars

\* The descriptor d is parameter a with kind k and default expression default.
IsDescriptor(d, a, k, default) ==
    /\ d.kind = "Argument"
    /\ d.arg_kind = k
    /\ d.variable.name = a.arg
    /\ d.initializer = visit_expr(default)

\* C3: with no more defaults than parameters in both groups, transform_args
\* emits the positional parameters without default as ARG_POS, the others as
\* ARG_OPT with the defaults in order, the vararg as ARG_STAR, the keyword-only
\* parameters without default and then those with one (in order) as ARG_NAMED,
\* and the kwarg as ARG_STAR2; nothing else.
C3_TransformArgsOrder ==
    LET a == cv_ast.args
        np == Len(a.args)
        nd == Len(a.defaults)
        nk == Len(a.kwonlyargs)
        nkd == Len(a.kw_defaults)
        va == IF IsNone(a.vararg) THEN 0 ELSE 1
        kw == IF IsNone(a.kwarg) THEN 0 ELSE 1
        out == cv_tree.elts
    IN (cv_pc = "done" /\ cv_ast.kind = "FunctionDef" /\ nd <= np /\ nkd <= nk) =>
          /\ cv_tree.kind = "list"
          /\ Len(out) = np + nk + va + kw
          /\ \A i \in 1..(np - nd) : IsDescriptor(out[i], a.args[i], "ARG_POS", None)
          /\ \A i \in (np - nd + 1)..np :
                IsDescriptor(out[i], a.args[i], "ARG_OPT", a.defaults[i - (np - nd)])
          /\ va = 1 => IsDescriptor(out[np + 1], a.vararg, "ARG_STAR", None)
          /\ \A i \in 1..(nk - nkd) :
                IsDescriptor(out[np + va + i], a.kwonlyargs[i], "ARG_NAMED", None)
          /\ \A i \in (nk - nkd + 1)..nk :
                IsDescriptor(out[np + va + i], a.kwonlyargs[i], "ARG_NAMED",
                             a.kw_defaults[i - (nk - nkd)])
          /\ kw = 1 => IsDescriptor(out[np + va + nk + 1], a.kwarg, "ARG_STAR2", None)

\* A parameter list with every group: positional parameters with and without
\* default, a vararg, keyword-only parameters with and without default, a kwarg.
C3_Witness ==
    /\ cv_pc = "done"
    /\ cv_ast.kind = "FunctionDef"
    /\ Len(cv_ast.args.args) = 3
    /\ Len(cv_ast.args.defaults) = 2
    /\ ~IsNone(cv_ast.args.vararg)
    /\ Len(cv_ast.args.kwonlyargs) = 2
    /\ Len(cv_ast.args.kw_defaults) = 1
    /\ ~IsNone(cv_ast.args.kwarg)
    /\ cv_tree.kind = "list"
    /\ Len(cv_tree.elts) = 7


\* Most statements, nested ones counted, of a module with import statements.
MaxImportNodes == 4

ImportFamily ==
    [leaves |-> {"Import", "Pass"}, one |-> {"FunctionDef", "ClassDef", "With"},
     two |-> {"If", "While", "For"}, try |-> {"Try"}]

InitImports ==
    /\ cv_ast \in { NumberModule(b, rot) :
                      b \in ModuleShapes(MaxImportNodes, ImportFamily), rot \in 0..2 }
    /\ cv_self = ASTConverter
    /\ cv_tree = None
    /\ cv_pc = "call"
    /\ TypeIdle /\ ParseIdle

\* ASTConverter().visit(module): the result, and the converter's fields after.
VisitModule ==
    /\ cv_pc = "call"
    /\ LET r == visit_Module(cv_ast, cv_self) IN
          IF Raised(r) THEN cv_tree' = r /\ cv_self' = cv_self
          ELSE cv_tree' = r.node /\ cv_self' = r.self
    /\ cv_pc' = "done"
    /\ UNCHANGED <<cv_ast, typeVars, parseVars>>

NextImports == VisitModule

SpecImports == InitImports /\ [][NextImports]_vars

\* The lines of the import statements of a statement list in source order,
\* at any depth.
RECURSIVE ImportLines(_)
ImportLines(body) ==
    IF body = <<>> THEN <<>>
    ELSE LET n == Head(body) IN
         (CASE n.kind \in {"Import", "ImportFrom"} -> <<n.lineno>>
            [] n.kind \in {"FunctionDef", "ClassDef", "With"} -> ImportLines(n.body)
            [] n.kind \in {"If", "While", "For"} ->
                   ImportLines(n.body) \o ImportLines(n.orelse)
            [] n.kind = "excepthandler" -> ImportLines(n.body)
            [] n.kind = "Try" ->
                   ImportLines(n.body) \o ImportLines(n.handlers)
                   \o ImportLines(n.orelse) \o ImportLines(n.finalbody)
            [] OTHER -> <<>>)
         \o ImportLines(Tail(body))

\* C2: the import list of the MypyFile holds every import statement of the
\* module, at any depth, once each and in source order.
C2_ImportsInSourceOrder ==
    (cv_pc = "done" /\ cv_ast.kind = "Module" /\ cv_tree.kind = "MypyFile") =>
        /\ [i \in 1..Len(cv_tree.imports) |-> cv_tree.imports[i].line]
               = ImportLines(cv_ast.body)
        /\ \A i \in 1..Len(cv_tree.imports) :
              cv_tree.imports[i].kind \in {"Import", "ImportFrom", "ImportAll"}


(***************************************************************************)
(* The inside-class flag over nested classes and functions                 *)
(***************************************************************************)
\* Most statements of a module of classes and functions, nested ones counted.
MaxClassNodes == 5

ClassFamily ==
    [leaves |-> {"Pass"}, one |-> {"ClassDef", "FunctionDef"}, two |-> {}, try |-> {}]

InitClasses ==
    /\ cv_ast \in { NumberModule(b, 0) : b \in ModuleShapes(MaxClassNodes, ClassFamily) }
    /\ cv_self = ASTConverter
    /\ cv_tree = None
    /\ cv_pc = "call"
    /\ TypeIdle /\ ParseIdle

NextClasses == VisitModule

SpecClasses == InitClasses /\ [][NextClasses]_vars

\* The statements of a list in the order of their conversion, each with
\* whether it lies inside the body of some class.
RECURSIVE InsideClass(_, _)
InsideClass(body, inside) ==
    IF body = <<>> THEN <<>>
    ELSE LET n == Head(body) IN
         <<[lineno |-> n.lineno, in_class |-> inside]>>
         \o (CASE n.kind = "ClassDef" -> InsideClass(n.body, TRUE)
               [] n.kind = "FunctionDef" -> InsideClass(n.body, inside)
               [] OTHER -> <<>>)
         \o InsideClass(Tail(body), inside)

\* C10: every statement is converted with the flag true exactly when it lies
\* inside some class body, and after the module the flag is false.
C10_InClassFlag ==
    (cv_pc = "done" /\ cv_ast.kind = "Module") =>
        /\ cv_self.visited = InsideClass(cv_ast.body, FALSE)
        /\ cv_self.in_class = FALSE

(***************************************************************************)
(* Function definitions with and without decorators                        *)
(***************************************************************************)
\* Most decorators of a function definition.
MaxDecorators == 3
\* Largest line a function definition or its class starts on.
MaxDefLine == 3

\* A definition that starts on a line with k decorators, one a line, the def
\* line after them and the body of one or two statements below.
FunctionDefOn(lineno, k, type_comment, long) ==
    FunctionDef("f", NoArguments,
                <<Pass(lineno + k + 1)>>
                    \o (IF long THEN <<Pass(lineno + k + 2)>> ELSE <<>>),
                [i \in 1..k |-> NameAt("dec", lineno + i - 1)],
                None, type_comment, lineno)

FunctionDefInputs ==
    { FunctionDefOn(l, k, tc, long) :
        l \in 1..MaxDefLine, k \in 0..MaxDecorators,
        tc \in {NoneName, "() -> None", "(int) -> int"}, long \in BOOLEAN }

InitFuncDef ==
    /\ cv_ast \in { Module(<<f>>, <<>>) : f \in FunctionDefInputs }
              \cup { Module(<<ClassDefNode("C", <<>>, <<>>,
                                           <<f>>, <<>>,
                                           f.lineno - 1)>>, <<>>) :
                       f \in { FunctionDefOn(l + 1, k, tc, long) :
                                 l \in 1..MaxDefLine, k \in 0..MaxDecorators,
                                 tc \in {NoneName, "() -> None"}, long \in BOOLEAN } }
    /\ cv_self = ASTConverter
    /\ cv_tree = None
    /\ cv_pc = "call"
    /\ TypeIdle /\ ParseIdle

NextFuncDef == VisitModule

SpecFuncDef == InitFuncDef /\ [][NextFuncDef]_vars

\* The function definition of the module and the node it was converted to.
TheFunctionDef(mod) ==
    IF IsClassModule(mod) THEN mod.body[1].body[1] ELSE mod.body[1]

TheFuncNode(mod, tree) ==
    IF IsClassModule(mod) THEN tree.defs[1].defs.body[1] ELSE tree.defs[1]

\* C6: a function on line L with k >= 1 decorators becomes a Decorator of line
\* L whose FuncDef and its body block have line L + k and whose variable is
\* not ready; a function with no decorator becomes the bare FuncDef of line L
\* with a body block of line L.
C6_DecoratedFuncDef ==
    (cv_pc = "done" /\ cv_ast.kind = "Module") =>
        /\ cv_tree.kind = "MypyFile"
        /\ LET n == TheFunctionDef(cv_ast)
               r == TheFuncNode(cv_ast, cv_tree)
               k == Len(n.decorator_list)
           IN IF k >= 1
              THEN /\ r.kind = "Decorator"
                   /\ r.line = n.lineno
                   /\ r.func.kind = "FuncDef"
                   /\ r.func.name = n.name
                   /\ r.func.line = n.lineno + k
                   /\ r.func.body.kind = "Block"
                   /\ r.func.body.line = n.lineno + k
                   /\ r.var.is_ready = FALSE
              ELSE /\ r.kind = "FuncDef"
                   /\ r.line = n.lineno
                   /\ r.body.kind = "Block"
                   /\ r.body.line = n.lineno

\* A method with two or more decorators was converted to a Decorator.
C6_Witness ==
    /\ cv_pc = "done"
    /\ cv_tree.kind = "MypyFile"
    /\ IsClassModule(cv_ast)
    /\ Len(TheFunctionDef(cv_ast).decorator_list) >= 2
    /\ TheFuncNode(cv_ast, cv_tree).kind = "Decorator"
    /\ TheFuncNode(cv_ast, cv_tree).func.line > TheFuncNode(cv_ast, cv_tree).line + 1

(***************************************************************************)
(* The metaclass of a class definition                                     *)
(***************************************************************************)
\* Most names of a dotted metaclass value.
MaxChain == 2
\* Most keywords of a class definition.
MaxKeywords == 2

\* The names dotted values are made of.
ChainParts == SeqUpTo({"abc", "Meta"}, MaxChain) \ {<<>>}

\* The expression a.b.c of the names <<a, b, c>>: Attribute(Attribute(a, b), c).
RECURSIVE ChainOf(_, _)
ChainOf(parts, lineno) ==
    IF Len(parts) = 1 THEN NameAt(parts[1], lineno)
    ELSE AttributeAt(ChainOf(SubSeq(parts, 1, Len(parts) - 1), lineno),
                     parts[Len(parts)], lineno)

\* metaclass=<dotted value>, metaclass=<a number>, other=x and **x.
ClassKeywords ==
    { keyword("metaclass", ChainOf(parts, 1)) : parts \in ChainParts }
        \cup { keyword("metaclass", NumAt(1)) }
        \cup { keyword(a, NameAt("x", 1)) : a \in {"other", NoneName} }

InitClassDef ==
    /\ cv_ast \in { Module(<<ClassDefNode("C", <<>>, kws, <<Pass(2)>>, <<>>, 1)>>, <<>>) :
                      kws \in SeqUpTo(ClassKeywords, MaxKeywords) }
    /\ cv_self = ASTConverter
    /\ cv_tree = None
    /\ cv_pc = "call"
    /\ TypeIdle /\ ParseIdle

NextClassDef == VisitModule

SpecClassDef == InitClassDef /\ [][NextClassDef]_vars

\* The names joined by dots.
RECURSIVE Dotted(_)
Dotted(parts) ==
    IF Len(parts) = 1 THEN parts[1] ELSE parts[1] \o "." \o Dotted(Tail(parts))

\* The positions of the keywords named metaclass.
MetaclassPositions(kws) == { i \in 1..Len(kws) : kws[i].arg = "metaclass" }

\* C9: when no keyword is named metaclass the ClassDef has no metaclass; when
\* the first keyword of that name has a name or a dotted chain of names as its
\* value, the metaclass is the dotted string of that value, whatever the other
\* keywords are.
C9_Metaclass ==
    (cv_pc = "done" /\ cv_ast.kind = "Module") =>
        LET kws == cv_ast.body[1].keywords
            at == MetaclassPositions(kws)
        IN IF at = {}
           THEN cv_tree.kind = "MypyFile" /\ cv_tree.defs[1].metaclass = NoneName
           ELSE LET first == CHOOSE i \in at : \A j \in at : i <= j IN
                \A parts \in ChainParts :
                    kws[first].value = ChainOf(parts, 1) =>
                        /\ cv_tree.kind = "MypyFile"
                        /\ cv_tree.defs[1].kind = "ClassDef"
                        /\ cv_tree.defs[1].metaclass = Dotted(parts)

\* A class with two keywords named metaclass, the first a dotted chain and the
\* second another value, was converted.
C9_Witness ==
    /\ cv_pc = "done"
    /\ cv_tree.kind = "MypyFile"
    /\ LET kws == cv_ast.body[1].keywords IN
       /\ Len(kws) = 2
       /\ MetaclassPositions(kws) = {1, 2}
       /\ kws[1].value.kind = "Attribute"
       /\ kws[2].value # kws[1].value
    /\ cv_tree.defs[1].metaclass = "abc.Meta"

(***************************************************************************)
(* parse(): syntax errors, the Errors object and failures of the converter *)
(***************************************************************************)
\* Largest line of a syntax error.
MaxErrorLine == 2
\* Most operators nested in an expression of a parsed module.
MaxExprDepth == 2

FileNames == {NoneName, "", "m.py", "m.pyi", ".pyi", "pyi", "m.pyi.py", "pkg/m.pyi"}

\* Expressions with one operator: operators the converter has in its tables,
\* the matrix-multiply operator, an operator class in none of its tables, and
\* await, for which it has no visit method.
OperatorExprs ==
    { BinOp(NameAt("a", 1), op, NameAt("b", 1), 1) : op \in {"Add", "MatMult", "NoSuchOp"} }
        \cup { UnaryOp(op, NameAt("a", 1), 1) : op \in {"Not", "NoSuchOp"} }
        \cup { BoolOp(op, <<NameAt("a", 1), NameAt("b", 1)>>, 1) : op \in {"And", "NoSuchOp"} }
        \cup { Compare(NameAt("a", 1), <<op>>, <<NameAt("b", 1)>>, 1) :
                 op \in {"Lt", "NoSuchOp"} }
        \cup { Await(NameAt("a", 1), 1) }

RECURSIVE ParseExprs(_)
ParseExprs(depth) ==
    IF depth = 0 THEN {NameAt("a", 1)}
    ELSE IF depth = 1 THEN OperatorExprs
    ELSE { BinOp(NameAt("c", 1), "Add", e, 1) : e \in ParseExprs(depth - 1) }

\* The statements an expression stands in: an expression statement, the body
\* of an if, the test and the message of an assert, the argument of super()
\* under an attribute, and the body of a function.
StatementsOf(e) ==
    { Expr(e, 1),
      If(NameAt("t", 1), <<Expr(e, 2)>>, <<>>, 1),
      AssertNode(e, None, 1),
      AssertNode(NameAt("t", 1), e, 1),
      Expr(AttributeAt(Call(NameAt("super", 1), <<e>>, <<>>, 1), "x", 1), 1),
      FunctionDef("f", NoArguments, <<Expr(e, 2)>>, <<>>, None, NoneName, 1) }

ParsedModules ==
    { Module(<<st>>, <<>>) :
        st \in UNION { StatementsOf(e) :
                         e \in UNION { ParseExprs(d) : d \in 0..MaxExprDepth } } }
        \cup { Module(<<AugAssign(NameAt("a", 1), op, NameAt("b", 1), 1)>>, <<>>) :
                 op \in {"Add", "MatMult", "NoSuchOp"} }
        \cup { Module(<<Pass(1), AsyncFunctionDef(2)>>, <<>>), Module(<<>>, <<>>) }

SyntaxErrors ==
    { SyntaxErrorAt(l, msg) :
        l \in 1..MaxErrorLine, msg \in {"invalid syntax", "unexpected EOF while parsing"} }

InitParse ==
    /\ p_parsed \in ParsedModules \cup SyntaxErrors
    /\ p_fnam \in FileNames
    /\ p_errors \in {None, Errors}
    /\ p_result = None
    /\ p_calls = <<>>
    /\ p_pc = "call"
    /\ TypeIdle /\ ConvIdle

\* parse(source, fnam, errors)
Parse ==
    /\ p_pc = "call"
    /\ LET out == parse(p_parsed, p_fnam, p_errors) IN
          /\ p_result' = out.result
          /\ p_calls' = out.calls
    /\ p_pc' = "done"
    /\ UNCHANGED <<p_parsed, p_fnam, p_errors, typeVars, convVars>>

NextParse == Parse

SpecParse == InitParse /\ [][NextParse]_vars

\* C4: a rejected source with an Errors object gives set_file (the file name,
\* or '<input>' without one) and then one report of the line and message, and
\* an empty non-stub module; without an Errors object the syntax error is
\* raised. An accepted source makes no call on the Errors object and its tree
\* is a stub exactly for a non-empty file name that ends with '.pyi'.
C4_SyntaxErrorsAndStubs ==
    p_pc = "done" =>
        IF Raised(p_parsed)
        THEN IF p_errors # None
             THEN /\ p_calls = << [kind |-> "set_file",
                                   file |-> IF p_fnam = NoneName THEN "<input>" ELSE p_fnam],
                                  [kind |-> "report", line |-> p_parsed.lineno,
                                   message |-> p_parsed.msg] >>
                  /\ p_result.kind = "MypyFile"
                  /\ p_result.defs = <<>>
                  /\ p_result.imports = <<>>
                  /\ p_result.ignored_lines = {}
                  /\ p_result.is_stub = FALSE
             ELSE /\ p_calls = <<>>
                  /\ p_result = p_parsed
        ELSE /\ p_calls = <<>>
             /\ p_result.kind = "MypyFile" =>
                   (p_result.is_stub <=> p_fnam \in {"m.pyi", ".pyi", "pkg/m.pyi"})

\* A syntax error was reported for a source without a file name, and a stub
\* was parsed with an Errors object at hand.
C4_Witness ==
    /\ p_pc = "done"
    /\ p_errors # None
    /\ \/ /\ Raised(p_parsed)
          /\ p_fnam = NoneName
          /\ Len(p_calls) = 2
          /\ p_result.kind = "MypyFile"
       \/ /\ ~Raised(p_parsed)
          /\ p_result.kind = "MypyFile"
          /\ p_result.is_stub

\* Whether a node or one below it is one the converter cannot convert: the
\* matrix-multiply operator, an operator in none of the tables, a node without
\* a visit method. With visitedOnly, the places the converter never visits are
\* left out: the message of an assert and the call super(...) under an
\* attribute.
RECURSIVE Unsupported(_, _)
Unsupported(n, visitedOnly) ==
    LET Some(l) == \E i \in 1..Len(l) : Unsupported(l[i], visitedOnly) IN
    CASE n.kind \in {"Await", "AsyncFunctionDef"} -> TRUE
      [] n.kind = "BinOp" ->
             \/ n.op \in {"MatMult", "NoSuchOp"}
             \/ Unsupported(n.left, visitedOnly) \/ Unsupported(n.right, visitedOnly)
      [] n.kind = "UnaryOp" -> n.op = "NoSuchOp" \/ Unsupported(n.operand, visitedOnly)
      [] n.kind = "BoolOp" -> n.op = "NoSuchOp" \/ Some(n.values)
      [] n.kind = "Compare" ->
             \/ \E i \in 1..Len(n.ops) : n.ops[i] = "NoSuchOp"
             \/ Unsupported(n.left, visitedOnly) \/ Some(n.comparators)
      [] n.kind = "Attribute" ->
             IF visitedOnly /\ n.value.kind = "Call" /\ n.value.func = NameAt("super", 1)
             THEN FALSE
             ELSE Unsupported(n.value, visitedOnly)
      [] n.kind = "Call" -> Unsupported(n.func, visitedOnly) \/ Some(n.args)
      [] n.kind = "Expr" -> Unsupported(n.value, visitedOnly)
      [] n.kind = "If" ->
             Unsupported(n.test, visitedOnly) \/ Some(n.body) \/ Some(n.orelse)
      [] n.kind = "Assert" ->
             \/ Unsupported(n.test, visitedOnly)
             \/ ~visitedOnly /\ Unsupported(n.msg, visitedOnly)
      [] n.kind = "AugAssign" ->
             \/ n.op \in {"MatMult", "NoSuchOp"}
             \/ Unsupported(n.target, visitedOnly) \/ Unsupported(n.value, visitedOnly)
      [] n.kind \in {"FunctionDef", "Module"} -> Some(n.body)
      [] OTHER -> FALSE

\* C5 as stated: a module with a node the converter cannot convert makes
\* parse() raise RuntimeError, with or without an Errors object, with no call
\* on the Errors object and no module returned.
C5_UnsupportedRaises ==
    (p_pc = "done" /\ ~Raised(p_parsed) /\ Unsupported(p_parsed, FALSE)) =>
        /\ p_result = Raise("RuntimeError")
        /\ p_calls = <<>>

\* C5, amended: parse() raises RuntimeError, with or without an Errors object,
\* with no call on the Errors object and no module returned, exactly when a
\* node the converter cannot convert stands where the converter visits it;
\* one in the message of an assert or in the arguments of super() under an
\* attribute is dropped and the module is returned.
C5_VisitedUnsupportedRaises ==
    (p_pc = "done" /\ ~Raised(p_parsed)) =>
        /\ p_calls = <<>>
        /\ IF Unsupported(p_parsed, TRUE)
           THEN p_result = Raise("RuntimeError")
           ELSE p_result.kind = "MypyFile"

\* With an Errors object at hand, a matrix multiplication nested in the body
\* of a function made parse() raise, and one in the message of an assert was
\* dropped.
C5_Witness ==
    /\ p_pc = "done"
    /\ p_errors # None
    /\ ~Raised(p_parsed)
    /\ \/ /\ p_parsed.body # <<>>
          /\ p_parsed.body[1].kind = "FunctionDef"
          /\ p_parsed.body[1].body[1].value.kind = "BinOp"
          /\ p_parsed.body[1].body[1].value.right.kind = "BinOp"
          /\ p_parsed.body[1].body[1].value.right.op = "MatMult"
          /\ p_result = Raise("RuntimeError")
       \/ /\ p_parsed.body # <<>>
          /\ p_parsed.body[1].kind = "Assert"
          /\ p_parsed.body[1].msg.kind = "BinOp"
          /\ p_parsed.body[1].msg.op = "MatMult"
          /\ p_result.kind = "MypyFile"

(***************************************************************************)
(* fix_function_overloads, as visit_Module and visit_ClassDef apply it     *)
(***************************************************************************)
\* Longest statement list given to fix_function_overloads.
MaxStmts == 5

\* Bodies of decorated definitions of f and of g, undecorated definitions of
\* f and statements that define nothing.
OverloadFamily ==
    [leaves |-> {"DecoratedF", "DecoratedG", "PlainF", "Pass"}, one |-> {},
     two |-> {}, try |-> {}]

InitOverloads ==
    /\ cv_ast \in { NumberModule(b, 0) : b \in ModuleShapes(MaxStmts, OverloadFamily) }
              \cup { NumberClassModule(b, 0) : b \in ModuleShapes(MaxStmts, OverloadFamily) }
              \cup { Module(<<>>, <<>>) }
    /\ cv_self = ASTConverter
    /\ cv_tree = None
    /\ cv_pc = "call"
    /\ TypeIdle /\ ParseIdle

NextOverloads == VisitModule

SpecOverloads == InitOverloads /\ [][NextOverloads]_vars

\* The statement list fix_function_overloads was given: the converted
\* statements of the module body or of the class body.
FoldInput(mod) ==
    IF IsClassModule(mod)
    THEN visit_stmt_list(mod.body[1].body, [ASTConverter EXCEPT !.in_class = TRUE]).elts
    ELSE visit_stmt_list(mod.body, ASTConverter).elts

\* The statement list it returned, as the tree holds it.
FoldOutput(mod, tree) ==
    IF IsClassModule(mod) THEN tree.defs[1].defs.body ELSE tree.defs

\* The statements of an output list, every combined node replaced by its items.
RECURSIVE Flatten(_)
Flatten(out) ==
    IF out = <<>> THEN <<>>
    ELSE (IF Head(out).kind = "OverloadedFuncDef" THEN Head(out).items ELSE <<Head(out)>>)
         \o Flatten(Tail(out))

\* The name a run is about, for a Decorator or a combined node.
RunName(node) ==
    IF node.kind = "OverloadedFuncDef" THEN node.items[1].func.name ELSE node.func.name

IsRunNode(node) == node.kind \in {"Decorator", "OverloadedFuncDef"}

\* C1: the output of fix_function_overloads, flattened, is the input list; a
\* combined node holds two or more Decorators of one name; no two neighbours of
\* the output belong to one run (each maximal run is emitted as one node, a run
\* of one as the bare Decorator); every other statement passes through. This
\* for the body of a module and for the body of a class.
C1_OverloadFolding ==
    (cv_pc = "done" /\ cv_ast.kind = "Module") =>
        /\ cv_tree.kind = "MypyFile"
        /\ LET out == FoldOutput(cv_ast, cv_tree) IN
           /\ Flatten(out) = FoldInput(cv_ast)
           /\ \A i \in 1..Len(out) :
                 out[i].kind = "OverloadedFuncDef" =>
                     /\ Len(out[i].items) >= 2
                     /\ \A j \in 1..Len(out[i].items) :
                           /\ IsDecorator(out[i].items[j])
                           /\ out[i].items[j].func.name = out[i].items[1].func.name
           /\ \A i \in 1..(Len(out) - 1) :
                 (IsRunNode(out[i]) /\ IsRunNode(out[i + 1]))
                     => RunName(out[i]) # RunName(out[i + 1])

\* A class body where a run of two or more was combined, a run of one passed
\* through unwrapped before another run, and another statement passed through.
C1_Witness ==
    /\ cv_pc = "done"
    /\ cv_tree.kind = "MypyFile"
    /\ IsClassModule(cv_ast)
    /\ LET out == FoldOutput(cv_ast, cv_tree) IN
       /\ \E i \in 1..Len(out) : out[i].kind = "OverloadedFuncDef"
       /\ \E i \in 1..(Len(out) - 1) : out[i].kind = "Decorator" /\ IsRunNode(out[i + 1])
       /\ \E i \in 1..Len(out) : ~IsRunNode(out[i])

(***************************************************************************)
(* The signature of a function: type comment, annotations, implicit self   *)
(***************************************************************************)
\* Most parameters of a function with a signature.
MaxParams == 3

TypeComments == {"() -> None", "(int) -> int", "(int, int) -> int", "(...) -> int"}

\* def f(p1, .., *va) on a line, every parameter annotated alike, with or
\* without a type comment.
SignatureDefOn(lineno, np, va, ann, type_comment) ==
    FunctionDef("f",
                arguments([i \in 1..np |-> arg("p" \o ToString(i), ann)],
                          IF va THEN arg("va", ann) ELSE None,
                          <<>>, <<>>, None, <<>>),
                <<Pass(lineno + 1)>>, <<>>, None, type_comment, lineno)

\* The function at the top of a module, as the only method of a class, and as
\* a method after a nested class.
SignatureModules(np, va, ann, tc) ==
    { Module(<<SignatureDefOn(1, np, va, ann, tc)>>, <<>>),
      Module(<<ClassDefNode("C", <<>>, <<>>, <<SignatureDefOn(2, np, va, ann, tc)>>,
                            <<>>, 1)>>, <<>>),
      Module(<<ClassDefNode("C", <<>>, <<>>,
                            <<ClassDefNode("D", <<>>, <<>>, <<Pass(3)>>, <<>>, 2),
                              SignatureDefOn(4, np, va, ann, tc)>>,
                            <<>>, 1)>>, <<>>) }

InitSignature ==
    /\ cv_ast \in UNION { SignatureModules(np, va, ann, tc) :
                            np \in 0..MaxParams, va \in BOOLEAN,
                            ann \in {None, Name("str")},
                            tc \in TypeComments \cup {NoneName} }
    /\ cv_self = ASTConverter
    /\ cv_tree = None
    /\ cv_pc = "call"
    /\ TypeIdle /\ ParseIdle

NextSignature == VisitModule

SpecSignature == InitSignature /\ [][NextSignature]_vars

\* The function definition of such a module and the FuncDef it became: the
\* last statement of the module or of its class.
SignatureDef(mod) ==
    IF IsClassModule(mod) THEN mod.body[1].body[Len(mod.body[1].body)] ELSE mod.body[1]

SignatureNode(mod, tree) ==
    IF IsClassModule(mod)
    THEN tree.defs[1].defs.body[Len(tree.defs[1].defs.body)]
    ELSE tree.defs[1]

\* The types a type comment lists, for a converter of a line.
ListedTypes(tc, line) ==
    CASE tc = "() -> None" -> <<>>
      [] tc = "(int) -> int" -> <<UnboundType("int", <<>>, line)>>
      [] tc = "(int, int) -> int" ->
             <<UnboundType("int", <<>>, line), UnboundType("int", <<>>, line)>>
      [] tc = "(...) -> int" -> <<EllipsisType(line)>>

\* The parameters of a function definition: its Argument descriptors.
ParameterCount(n) == Len(n.args.args) + (IF IsNone(n.args.vararg) THEN 0 ELSE 1)

\* C11: with a type comment that lists types, the argument types of the
\* signature are the listed types, with one Any in front exactly when the
\* function lies in a class body and the comment lists one type fewer than
\* there are parameters; the return type is the comment's, and no type comes
\* from an annotation.
C11_ImplicitSelf ==
    (/\ cv_pc = "done"
     /\ cv_ast.kind = "Module"
     /\ SignatureDef(cv_ast).type_comment \notin {NoneName, "(...) -> int"}) =>
        /\ cv_tree.kind = "MypyFile"
        /\ LET n == SignatureDef(cv_ast)
               r == SignatureNode(cv_ast, cv_tree)
               listed == ListedTypes(n.type_comment, n.lineno)
           IN /\ r.type.kind = "CallableType"
              /\ r.type.arg_types =
                     (IF IsClassModule(cv_ast) /\ Len(listed) = ParameterCount(n) - 1
                      THEN <<AnyType>> ELSE <<>>) \o listed
              /\ r.type.ret_type.name =
                     (IF n.type_comment = "() -> None" THEN "None" ELSE "int")

\* C13: every signature visit_FunctionDef produces has as many argument types
\* as argument kinds and argument names, which is the number of Argument
\* descriptors of the function, whether the types come from annotations or
\* from a type comment, in a class body or outside.
C13_SignatureShape ==
    (/\ cv_pc = "done"
     /\ cv_ast.kind = "Module"
     /\ cv_tree.kind = "MypyFile"
     /\ SignatureNode(cv_ast, cv_tree).kind = "FuncDef"
     /\ SignatureNode(cv_ast, cv_tree).type.kind = "CallableType") =>
        LET r == SignatureNode(cv_ast, cv_tree)
        IN /\ Len(r.type.arg_kinds) = Len(r.arguments)
           /\ Len(r.type.arg_names) = Len(r.arguments)
           /\ Len(r.type.arg_types) = Len(r.arguments)

(***************************************************************************)
(* visit_Call: the flat argument, kind and name lists of a call            *)
(***************************************************************************)
\* Most positional arguments and most keyword entries of a call.
MaxCallArgs == 2
MaxCallKeywords == 2

\* Positional arguments: plain names and starred names.
CallArgs == {NameAt("a", 1), NameAt("b", 1), Starred(NameAt("s", 1), 1)}

\* Keyword entries: x=u, y=v and **w.
CallKeywords ==
    {keyword("x", NameAt("u", 1)), keyword("y", NameAt("v", 1)),
     keyword(NoneName, NameAt("w", 1))}

InitCall ==
    /\ cv_ast \in { Call(NameAt("f", 1), as, ks, 1) :
                      as \in SeqUpTo(CallArgs, MaxCallArgs),
                      ks \in SeqUpTo(CallKeywords, MaxCallKeywords) }
    /\ cv_self = ASTConverter
    /\ cv_tree = None
    /\ cv_pc = "call"
    /\ TypeIdle /\ ParseIdle

NextCall == VisitExpr

SpecCall == InitCall /\ [][NextCall]_vars

\* C12: a call with p positional arguments and k keyword entries becomes a
\* CallExpr whose argument, kind and name lists have length p + k; the
\* positional arguments come first and the keyword entries after them, each in
\* source order; a positional argument is ARG_STAR with its inner expression
\* when starred and ARG_POS otherwise, and has no name; a keyword entry is
\* ARG_STAR2 when it has no name and ARG_NAMED with its name otherwise.
C12_CallFlattening ==
    (cv_pc = "done" /\ cv_ast.kind = "Call") =>
        LET p == Len(cv_ast.args)
            k == Len(cv_ast.keywords)
        IN /\ cv_tree.kind = "CallExpr"
           /\ Len(cv_tree.args) = p + k
           /\ Len(cv_tree.arg_kinds) = p + k
           /\ Len(cv_tree.arg_names) = p + k
           /\ \A i \in 1..p :
                 LET a == cv_ast.args[i] IN
                 /\ (cv_tree.arg_kinds[i] = "ARG_STAR") = (a.kind = "Starred")
                 /\ cv_tree.arg_kinds[i] \in {"ARG_STAR", "ARG_POS"}
                 /\ cv_tree.args[i] =
                        visit_expr(IF a.kind = "Starred" THEN a.value ELSE a)
                 /\ cv_tree.arg_names[i] = NoneName
           /\ \A j \in 1..k :
                 LET kw == cv_ast.keywords[j] IN
                 /\ (cv_tree.arg_kinds[p + j] = "ARG_STAR2") = (kw.arg = NoneName)
                 /\ cv_tree.arg_kinds[p + j] \in {"ARG_STAR2", "ARG_NAMED"}
                 /\ cv_tree.args[p + j] = visit_expr(kw.value)
                 /\ (cv_tree.arg_names[p + j] # NoneName) =
                        (cv_tree.arg_kinds[p + j] = "ARG_NAMED")
                 /\ cv_tree.arg_kinds[p + j] = "ARG_NAMED" =>
                        cv_tree.arg_names[p + j] = kw.arg

\* C12: a converted call with a starred and a plain positional argument, a
\* named keyword and a ** entry.
C12_Witness ==
    /\ cv_pc = "done"
    /\ cv_ast.kind = "Call"
    /\ cv_tree.kind = "CallExpr"
    /\ \E i \in 1..Len(cv_ast.args) : cv_ast.args[i].kind = "Starred"
    /\ \E i \in 1..Len(cv_ast.args) : cv_ast.args[i].kind = "Name"
    /\ \E j \in 1..Len(cv_ast.keywords) : cv_ast.keywords[j].arg = NoneName
    /\ \E j \in 1..Len(cv_ast.keywords) : cv_ast.keywords[j].arg # NoneName

====
